---- MODULE Spec2Model ----
(***************************************************************************)
(* Scheduling and execution engine of the job scheduler service:          *)
(* JobService (src/services/jobs.py), SchedulerService                     *)
(* (src/services/scheduler.py) and JobExecutor (src/services/executor.py)  *)
(* over the jobs / job_executions tables (src/models/job.py).              *)
(*                                                                         *)
(* Time is the wall clock in seconds.  A datetime column that holds None   *)
(* is Null.  The ORM object a worker holds is a snapshot of the row; a     *)
(* commit writes the attributes whose value differs from the snapshot.     *)
(***************************************************************************)
EXTENDS Integers, FiniteSets, Sequences, TLC

\* ---------------------------------------------------------------- bounds
MaxJobs == 2
MaxRuns == 2
MaxTicks == 2
MaxCalls == 3
MaxRetryCount == 8

\* one step of the model clock, in seconds
TickStep == 60

JobIds == 1..MaxJobs
RunIds == 1..MaxRuns
MaxTime == MaxTicks * TickStep

\* ------------------------------------------------------------- constants
\* Python None in a nullable column
Null == -1
\* cron_expression = None
NoCron == "None"
EveryMinute == "* * * * *"
EveryTwoMinutes == "*/2 * * * *"
\* six fields, the sixth being croniter's seconds field: second 0 of every
\* minute.  CronTrigger.from_crontab takes five fields only.
SixFieldCron == "* * * * * 0"
\* a string croniter and CronTrigger.from_crontab both reject
BadCron == "not a cron"

\* max_instances of the scheduler's job_defaults
DefaultMaxInstances == 3
\* max_instances passed to add_job
MaxInstances == 1
\* workers of the scheduler's ThreadPoolExecutor
PoolSize == 20
\* cap of the retry backoff, in minutes
RetryCapMinutes == 60
SecondsPerMinute == 60

VARIABLES
    now,          \* wall clock, seconds
    jobs,         \* jobs table: id -> row or NoJob
    executions,   \* job_executions table: set of rows
    triggers,     \* the scheduler's job store: id -> trigger or NoTrigger
    scheduler,    \* SchedulerService.scheduler is set
    submitted,    \* ids whose _execute_job call the pool has not started yet
    runs,         \* execute calls in flight on pool workers
    abandoned,    \* handler threads left running after a timeout
    raised,       \* runs whose execute call raised into _execute_job
    nextRun,      \* next execution id
    created,      \* ids already given to a job
    lastError,    \* exception raised by the last JobService call
    calls         \* JobService calls made so far

vars == <<now, jobs, executions, triggers, scheduler, submitted, runs, abandoned,
          raised, nextRun, created, lastError, calls>>

NoJob == [status |-> "absent"]
NoTrigger == [kind |-> "none"]

\* ---------------------------------------------------------------- helpers
Min(a, b) == IF a < b THEN a ELSE b

RECURSIVE Pow2(_)
Pow2(n) == IF n <= 0 THEN 1 ELSE 2 * Pow2(n - 1)

RECURSIVE Gcd(_, _)
Gcd(a, b) == IF b = 0 THEN a ELSE Gcd(b, a % b)

\* a float held as an exact fraction <<numerator, denominator>>
Frac(p, q) == LET g == Gcd(p, q) IN IF g = 0 THEN <<0, 1>> ELSE <<p \div g, q \div g>>

\* Python truthiness of an optional string / optional integer
TruthyStr(s) == s # NoCron /\ s # ""
TruthyInt(n) == n # Null /\ n # 0

\* croniter(expr) accepts the expression
CronValid(expr) == expr \in {EveryMinute, EveryTwoMinutes, SixFieldCron}

\* CronTrigger.from_crontab(expr) accepts the expression
FromCrontabValid(expr) == expr \in {EveryMinute, EveryTwoMinutes}

\* period of a valid cron expression, seconds
CronPeriod(expr) == IF expr = EveryTwoMinutes THEN 2 * SecondsPerMinute ELSE SecondsPerMinute

\* croniter(expr, t).get_next(): the earliest matching instant strictly after t
CronNext(expr, t) == ((t \div CronPeriod(expr)) + 1) * CronPeriod(expr)

\* ------------------------------------------------------ trigger calculator
\* JobService._calculate_next_run_time
JobService_calculate_next_run_time(cron_expression, interval_seconds, t) ==
    IF TruthyStr(cron_expression)
    THEN IF CronValid(cron_expression) THEN CronNext(cron_expression, t) ELSE Null
    ELSE IF TruthyInt(interval_seconds) THEN t + interval_seconds ELSE Null

\* JobExecutor._calculate_next_run_time
JobExecutor_calculate_next_run_time(job, t) ==
    IF TruthyStr(job.cron_expression)
    THEN IF CronValid(job.cron_expression) THEN CronNext(job.cron_expression, t) ELSE Null
    ELSE IF TruthyInt(job.interval_seconds) THEN t + job.interval_seconds ELSE Null

\* the retry delay, had it not been capped
RetryDelayUncapped(retry_count) == Pow2(retry_count)

\* JobExecutor._calculate_retry_time
RetryDelayMinutes(retry_count) == Min(Pow2(retry_count), RetryCapMinutes)
_calculate_retry_time(job, t) == t + RetryDelayMinutes(job.retry_count) * SecondsPerMinute

\* ------------------------------------------------------- scheduler service
\* SchedulerService._create_trigger: the trigger armed at time t
_create_trigger(job, t) ==
    IF TruthyStr(job.cron_expression)
    THEN IF FromCrontabValid(job.cron_expression)
         THEN [kind |-> "cron", cron |-> job.cron_expression,
               next_fire |-> CronNext(job.cron_expression, t)]
         ELSE NoTrigger
    ELSE IF TruthyInt(job.interval_seconds)
         THEN [kind |-> "interval", seconds |-> job.interval_seconds,
               next_fire |-> t + job.interval_seconds]
         ELSE NoTrigger

\* remove_job, had it left the job store alone
RemoveJobForgets(trs, job_id) == trs

\* remove_job, had it emptied the job store
RemoveJobClearsStore(trs, job_id) ==
    IF ~scheduler THEN trs ELSE [k \in DOMAIN trs |-> NoTrigger]

\* SchedulerService.remove_job
remove_job(trs, job_id) ==
    IF ~scheduler THEN trs ELSE [trs EXCEPT ![job_id] = NoTrigger]

\* schedule_job, had it added a trigger only where the id has none
ScheduleJobKeepsExisting(trs, job_id, job, t) ==
    IF ~scheduler \/ trs[job_id] # NoTrigger THEN trs
    ELSE LET trigger == _create_trigger(job, t)
         IN  IF trigger = NoTrigger THEN trs ELSE [trs EXCEPT ![job_id] = trigger]

\* schedule_job, had it not returned early without a scheduler
ScheduleJobUnguarded(trs, job_id, job, t) ==
    LET removed == [trs EXCEPT ![job_id] = NoTrigger]
        trigger == _create_trigger(job, t)
    IN  IF trigger = NoTrigger THEN removed
        ELSE [removed EXCEPT ![job_id] = trigger]

\* SchedulerService.schedule_job
schedule_job(trs, job_id, job, t) ==
    IF ~scheduler THEN trs
    ELSE LET removed == [trs EXCEPT ![job_id] = NoTrigger]
             trigger == _create_trigger(job, t)
         IN  IF trigger = NoTrigger THEN removed
             ELSE [removed EXCEPT ![job_id] = trigger]

\* SchedulerService.reschedule_job
reschedule_job(trs, job_id, job, t) == schedule_job(trs, job_id, job, t)

\* SchedulerService.get_scheduled_jobs: the ids in the job store
get_scheduled_jobs(trs) ==
    IF ~scheduler THEN {} ELSE {j \in DOMAIN trs : trs[j] # NoTrigger}

\* the trigger's next fire time after a fire handled at time t
TriggerAdvance(trigger, t) ==
    IF trigger.kind = "cron"
    THEN [trigger EXCEPT !.next_fire = CronNext(trigger.cron, t)]
    ELSE [trigger EXCEPT !.next_fire =
            trigger.next_fire
              + (((t - trigger.next_fire) \div trigger.seconds) + 1) * trigger.seconds]

\* running instances the pool executor counts for a job id
Instances(job_id) ==
    Cardinality({r \in runs : r.job = job_id}) + (IF job_id \in submitted THEN 1 ELSE 0)

\* ------------------------------------------------------------ ORM session
\* Session.commit() of a loaded row: UPDATE of the columns whose value was
\* changed since the row was loaded ("loaded" is the snapshot, "assigned"
\* the object after the assignments)
Flush(row, loaded, assigned) ==
    [f \in DOMAIN row |-> IF assigned[f] # loaded[f] THEN assigned[f] ELSE row[f]]

\* the commit of a worker's session: it fails (StaleDataError, or the foreign
\* key of job_executions.job_id) when the job row is gone
CommitFails(tbl, job_id) == tbl[job_id] = NoJob

\* the worker's commit, had it merged the object back into the table
CommitJobMerges(tbl, job_id, loaded, assigned) ==
    IF CommitFails(tbl, job_id) THEN [tbl EXCEPT ![job_id] = assigned]
    ELSE [tbl EXCEPT ![job_id] = Flush(@, loaded, assigned)]

\* jobs table after the worker's commit
CommitJob(tbl, job_id, loaded, assigned) ==
    IF CommitFails(tbl, job_id) THEN tbl
    ELSE [tbl EXCEPT ![job_id] = Flush(@, loaded, assigned)]

\* ------------------------------------------------------------ job service
\* the values of the JobType enumeration
JobTypes ==
    {"email_notification", "data_processing", "report_generation", "cleanup_task",
     "backup_task", "custom"}

\* a job name, as the sequence of its characters
GoodName == <<"j", "o", "b">>

\* bodies a client may post to create_job; job_type "custom" and priority 5
\* are what create_job takes when the body does not name them
JobData(cron_expression, interval_seconds, max_retries) ==
    [name |-> GoodName, job_type |-> "custom", priority |-> 5,
     cron_expression |-> cron_expression, interval_seconds |-> interval_seconds,
     max_retries |-> max_retries, timeout_seconds |-> 60]

CreateInputs ==
    { JobData(NoCron, 60, 2),
      JobData(EveryMinute, Null, 0),
      JobData(EveryMinute, 60, 1),
      JobData(BadCron, Null, 0),
      JobData(NoCron, Null, 0) }

\* JobService._validate_job_data
_validate_job_data(job_data) ==
    /\ job_data.name # <<>>
    /\ TruthyStr(job_data.cron_expression) \/ TruthyInt(job_data.interval_seconds)
    /\ TruthyStr(job_data.cron_expression) => CronValid(job_data.cron_expression)
    /\ TruthyInt(job_data.interval_seconds) => job_data.interval_seconds > 0
    /\ TruthyStr(job_data.job_type) => job_data.job_type \in JobTypes

\* create_job can build the Job: JobType(job_data.get('job_type', 'custom'))
\* raises ValueError for a value outside the enumeration
JobBuilds(job_data) == job_data.job_type \in JobTypes

\* Job(...) with the column defaults of the model
NewJob(job_data, t) ==
    [name |-> job_data.name,
     job_type |-> job_data.job_type,
     priority |-> job_data.priority,
     is_active |-> TRUE,
     status |-> "pending",
     cron_expression |-> job_data.cron_expression,
     interval_seconds |-> job_data.interval_seconds,
     next_run_time |->
        JobService_calculate_next_run_time(job_data.cron_expression,
                                           job_data.interval_seconds, t),
     last_run_time |-> Null,
     max_retries |-> job_data.max_retries,
     retry_count |-> 0,
     timeout_seconds |-> job_data.timeout_seconds,
     total_runs |-> 0,
     successful_runs |-> 0,
     failed_runs |-> 0,
     average_runtime |-> <<0, 1>>]

\* JobService.create_job
create_job(job_data) ==
    /\ created # JobIds
    /\ calls < MaxCalls
    /\ calls' = calls + 1
    /\ IF ~(_validate_job_data(job_data) /\ JobBuilds(job_data))
       THEN /\ lastError' = "InvalidJobConfigurationError"
            /\ UNCHANGED <<jobs, triggers, created>>
       ELSE LET id == CHOOSE i \in JobIds \ created : \A k \in JobIds \ created : i <= k
                job == NewJob(job_data, now)
            IN  /\ jobs' = [jobs EXCEPT ![id] = job]
                /\ created' = created \cup {id}
                /\ triggers' = IF job.is_active /\ job.next_run_time # Null
                               THEN schedule_job(triggers, id, job, now)
                               ELSE triggers
                /\ lastError' = "None"
    /\ UNCHANGED <<now, executions, scheduler, submitted, runs, abandoned, raised, nextRun>>

\* JobService.pause_job
pause_job(job_id) ==
    /\ calls < MaxCalls
    /\ calls' = calls + 1
    /\ IF jobs[job_id] = NoJob
       THEN /\ lastError' = "JobNotFoundError"
            /\ UNCHANGED <<jobs, triggers>>
       ELSE /\ jobs' = [jobs EXCEPT ![job_id].is_active = FALSE,
                                    ![job_id].status = "paused"]
            /\ triggers' = remove_job(triggers, job_id)
            /\ lastError' = "None"
    /\ UNCHANGED <<now, executions, scheduler, submitted, runs, abandoned, raised, nextRun,
                   created>>

\* resume_job, had it kept the due time stored before the pause
ResumeKeepsDueTime(job_id) ==
    /\ calls < MaxCalls
    /\ calls' = calls + 1
    /\ IF jobs[job_id] = NoJob
       THEN /\ lastError' = "JobNotFoundError"
            /\ UNCHANGED <<jobs, triggers>>
       ELSE LET job == [jobs[job_id] EXCEPT !.is_active = TRUE, !.status = "pending"]
            IN  /\ jobs' = [jobs EXCEPT ![job_id] = job]
                /\ triggers' = schedule_job(triggers, job_id, job, now)
                /\ lastError' = "None"
    /\ UNCHANGED <<now, executions, scheduler, submitted, runs, abandoned, raised, nextRun,
                   created>>

\* JobService.resume_job
resume_job(job_id) ==
    /\ calls < MaxCalls
    /\ calls' = calls + 1
    /\ IF jobs[job_id] = NoJob
       THEN /\ lastError' = "JobNotFoundError"
            /\ UNCHANGED <<jobs, triggers>>
       ELSE LET job == [jobs[job_id] EXCEPT
                          !.is_active = TRUE,
                          !.status = "pending",
                          !.next_run_time =
                             JobService_calculate_next_run_time(
                                 jobs[job_id].cron_expression,
                                 jobs[job_id].interval_seconds, now)]
            IN  /\ jobs' = [jobs EXCEPT ![job_id] = job]
                /\ triggers' = schedule_job(triggers, job_id, job, now)
                /\ lastError' = "None"
    /\ UNCHANGED <<now, executions, scheduler, submitted, runs, abandoned, raised, nextRun,
                   created>>

\* the relationship without its delete cascade
NoCascade(rows, job_id) == rows

\* rows the relationship cascade deletes with a job
CascadeDelete(rows, job_id) == {e \in rows : e.job_id # job_id}

\* delete_job, had it treated a missing job as already deleted
DeleteJobSilent(job_id) ==
    /\ calls < MaxCalls
    /\ calls' = calls + 1
    /\ lastError' = "None"
    /\ triggers' = remove_job(triggers, job_id)
    /\ jobs' = [jobs EXCEPT ![job_id] = NoJob]
    /\ executions' = CascadeDelete(executions, job_id)
    /\ UNCHANGED <<now, scheduler, submitted, runs, abandoned, raised, nextRun, created>>

\* JobService.delete_job
delete_job(job_id) ==
    /\ calls < MaxCalls
    /\ calls' = calls + 1
    /\ IF jobs[job_id] = NoJob
       THEN /\ lastError' = "JobNotFoundError"
            /\ UNCHANGED <<jobs, triggers, executions>>
       ELSE /\ triggers' = remove_job(triggers, job_id)
            /\ jobs' = [jobs EXCEPT ![job_id] = NoJob]
            /\ executions' = CascadeDelete(executions, job_id)
            /\ lastError' = "None"
    /\ UNCHANGED <<now, scheduler, submitted, runs, abandoned, raised, nextRun, created>>

\* JobService.get_job_by_id, called on its own
get_job_by_id(job_id) ==
    /\ calls < MaxCalls
    /\ calls' = calls + 1
    /\ lastError' = IF jobs[job_id] = NoJob THEN "JobNotFoundError" ELSE "None"
    /\ UNCHANGED <<now, jobs, executions, triggers, scheduler, submitted, runs, abandoned,
                   raised, nextRun, created>>

\* JobService.get_job_executions: a page of the job's execution records
get_job_executions(job_id) ==
    /\ calls < MaxCalls
    /\ calls' = calls + 1
    /\ lastError' = IF jobs[job_id] = NoJob THEN "JobNotFoundError" ELSE "None"
    /\ UNCHANGED <<now, jobs, executions, triggers, scheduler, submitted, runs, abandoned,
                   raised, nextRun, created>>

\* bodies a client may send to update_job
UpdateInputs ==
    { ("interval_seconds" :> 120),
      ("cron_expression" :> BadCron),
      ("max_retries" :> 0),
      ("is_active" :> FALSE),
      ("status" :> "running") @@ ("retry_count" :> 5) @@ ("next_run_time" :> 0)
          @@ ("total_runs" :> 7) }

\* update_job, had it set every field the body names
AllFieldsAllowed ==
    {"name", "job_type", "priority", "is_active", "status", "cron_expression",
     "interval_seconds", "next_run_time", "last_run_time", "max_retries", "retry_count",
     "timeout_seconds", "total_runs", "successful_runs", "failed_runs", "average_runtime"}

allowed_fields ==
    {"name", "description", "cron_expression", "interval_seconds", "job_data",
     "max_retries", "timeout_seconds", "priority", "is_active"}

\* JobService.update_job
update_job(job_id, updates) ==
    /\ calls < MaxCalls
    /\ calls' = calls + 1
    /\ IF jobs[job_id] = NoJob
       THEN /\ lastError' = "JobNotFoundError"
            /\ UNCHANGED <<jobs, triggers>>
       ELSE LET set == [f \in DOMAIN jobs[job_id] |->
                          IF f \in DOMAIN updates /\ f \in allowed_fields
                          THEN updates[f] ELSE jobs[job_id][f]]
                rescheduled ==
                    \E f \in {"cron_expression", "interval_seconds"} : f \in DOMAIN updates
                job == IF rescheduled
                       THEN [set EXCEPT !.next_run_time =
                               JobService_calculate_next_run_time(
                                   set.cron_expression, set.interval_seconds, now)]
                       ELSE set
            IN  /\ jobs' = [jobs EXCEPT ![job_id] = job]
                /\ triggers' = IF rescheduled
                               THEN reschedule_job(triggers, job_id, job, now)
                               ELSE triggers
                /\ lastError' = "None"
    /\ UNCHANGED <<now, executions, scheduler, submitted, runs, abandoned, raised, nextRun,
                   created>>

\* ---------------------------------------------------------------- executor
\* outcome of waiting for the handler thread in _execute_with_timeout
Outcomes == {"success", "error", "timeout"}

\* the JobExecution(...) built at the start of execute
NewExecution(id, job_id, t) ==
    [id |-> id, job_id |-> job_id, status |-> "running", started_at |-> t,
     completed_at |-> Null, duration |-> Null,
     result |-> "None", error_message |-> "None"]

\* execute: the assignments made before the first commit
BeginUpdate(job) == [job EXCEPT !.status = "running", !.retry_count = 0]

\* the running average kept in average_runtime after run number n
AverageRuntime(avg, n, duration) ==
    Frac(avg[1] * (n - 1) + duration * avg[2], avg[2] * n)

\* the success branch, had it stamped last_run_time with the completion time
SuccessUpdateStampsCompletion(job, started_at, duration, t) ==
    [job EXCEPT !.status = "completed",
                !.last_run_time = t,
                !.total_runs = @ + 1,
                !.successful_runs = @ + 1,
                !.retry_count = 0,
                !.average_runtime = AverageRuntime(@, job.total_runs + 1, duration),
                !.next_run_time = JobExecutor_calculate_next_run_time(job, t)]

\* the success branch, had it left the status as the first commit set it
SuccessUpdateKeepsRunning(job, started_at, duration, t) ==
    [job EXCEPT !.last_run_time = started_at,
                !.total_runs = @ + 1,
                !.successful_runs = @ + 1,
                !.retry_count = 0,
                !.average_runtime = AverageRuntime(@, job.total_runs + 1, duration),
                !.next_run_time = JobExecutor_calculate_next_run_time(job, t)]

\* the success branch, had it computed next_run_time from the start of the run
SuccessUpdateAnchoredAtStart(job, started_at, duration, t) ==
    [job EXCEPT !.status = "completed",
                !.last_run_time = started_at,
                !.total_runs = @ + 1,
                !.successful_runs = @ + 1,
                !.retry_count = 0,
                !.average_runtime = AverageRuntime(@, job.total_runs + 1, duration),
                !.next_run_time = JobExecutor_calculate_next_run_time(job, started_at)]

\* execute: the assignments of the success branch
SuccessUpdate(job, started_at, duration, t) ==
    [job EXCEPT !.status = "completed",
                !.last_run_time = started_at,
                !.total_runs = @ + 1,
                !.successful_runs = @ + 1,
                !.retry_count = 0,
                !.average_runtime = AverageRuntime(@, job.total_runs + 1, duration),
                !.next_run_time = JobExecutor_calculate_next_run_time(job, t)]

\* execute: the assignments of the except branch
FailureUpdate(job, started_at, t) ==
    LET counted == [job EXCEPT !.status = "failed",
                               !.total_runs = @ + 1,
                               !.failed_runs = @ + 1,
                               !.last_run_time = started_at]
    IN  IF counted.retry_count < counted.max_retries
        THEN LET retried == [counted EXCEPT !.retry_count = @ + 1, !.status = "pending"]
             IN  [retried EXCEPT !.next_run_time = _calculate_retry_time(retried, t)]
        ELSE [counted EXCEPT !.next_run_time = Null]

\* the execution record, had the except branch not set its status
FinishedExecutionSuccessOnly(e, outcome, duration, t) ==
    IF outcome = "success"
    THEN [e EXCEPT !.completed_at = t, !.duration = duration,
                   !.status = "completed", !.result = "ok"]
    ELSE [e EXCEPT !.completed_at = t, !.duration = duration,
                   !.error_message = outcome]

\* execute: the execution record as its branch leaves it
FinishedExecution(e, outcome, duration, t) ==
    IF outcome = "success"
    THEN [e EXCEPT !.completed_at = t, !.duration = duration,
                   !.status = "completed", !.result = "ok"]
    ELSE [e EXCEPT !.completed_at = t, !.duration = duration,
                   !.status = "failed", !.error_message = outcome]

\* the handler thread, had it finalized the execution record itself
TargetFinalizesRecord(rows, id) ==
    {IF e.id = id THEN [e EXCEPT !.status = "completed", !.result = "ok"] ELSE e : e \in rows}

\* what the handler thread started by _execute_with_timeout writes when it
\* returns: only the result / exception variables of the enclosing call
target(rows, id) == rows

\* bound of the run ids: MaxRuns for MaxJobs job ids, and one more for every
\* further job id
RunCap == MaxRuns + Cardinality(DOMAIN jobs) - MaxJobs

\* The scheduler finds the trigger of job_id due: it moves the trigger to its
\* next fire time (coalescing the missed ones) and submits _execute_job(job_id)
\* to the pool unless max_instances calls for the id are in flight.
fire(job_id) ==
    /\ triggers[job_id] # NoTrigger
    /\ triggers[job_id].next_fire <= now
    /\ triggers' = [triggers EXCEPT ![job_id] = TriggerAdvance(@, now)]
    /\ IF Instances(job_id) >= MaxInstances
       THEN UNCHANGED submitted
       ELSE /\ nextRun + Cardinality(submitted) <= RunCap
            /\ submitted' = submitted \cup {job_id}
    /\ UNCHANGED <<now, jobs, executions, scheduler, runs, abandoned, raised, nextRun,
                   created, lastError, calls>>

\* _execute_job, had it not looked at is_active
ExecuteJobIgnoresActive(job_id) ==
    /\ job_id \in submitted
    /\ Cardinality(runs) < PoolSize
    /\ submitted' = submitted \ {job_id}
    /\ IF jobs[job_id] = NoJob
       THEN UNCHANGED <<runs, nextRun>>
       ELSE /\ runs' = runs \cup {[id |-> nextRun, job |-> job_id, pc |-> "start",
                                   obj |-> jobs[job_id],
                                   retry_before |-> jobs[job_id].retry_count,
                                   started_at |-> Null]}
            /\ nextRun' = nextRun + 1
    /\ UNCHANGED <<now, jobs, executions, triggers, scheduler, abandoned, raised, created,
                   lastError, calls>>

\* _execute_job, had the pool a worker for every submitted call
ExecuteJobUnbounded(job_id) ==
    /\ job_id \in submitted
    /\ submitted' = submitted \ {job_id}
    /\ IF jobs[job_id] = NoJob \/ ~jobs[job_id].is_active
       THEN UNCHANGED <<runs, nextRun>>
       ELSE /\ runs' = runs \cup {[id |-> nextRun, job |-> job_id, pc |-> "start",
                                   obj |-> jobs[job_id],
                                   retry_before |-> jobs[job_id].retry_count,
                                   started_at |-> Null]}
            /\ nextRun' = nextRun + 1
    /\ UNCHANGED <<now, jobs, executions, triggers, scheduler, abandoned, raised, created,
                   lastError, calls>>

\* SchedulerService._execute_job on a pool worker: a free worker of the pool
\* takes the submitted call, loads the job, returns at once if it is absent
\* or inactive, and calls execute otherwise.  The worker is busy until
\* execute returns.
_execute_job(job_id) ==
    /\ job_id \in submitted
    /\ Cardinality(runs) < PoolSize
    /\ submitted' = submitted \ {job_id}
    /\ IF jobs[job_id] = NoJob \/ ~jobs[job_id].is_active
       THEN UNCHANGED <<runs, nextRun>>
       ELSE /\ runs' = runs \cup {[id |-> nextRun, job |-> job_id, pc |-> "start",
                                   obj |-> jobs[job_id],
                                   retry_before |-> jobs[job_id].retry_count,
                                   started_at |-> Null]}
            /\ nextRun' = nextRun + 1
    /\ UNCHANGED <<now, jobs, executions, triggers, scheduler, abandoned, raised, created,
                   lastError, calls>>

\* JobExecutor.execute up to the first commit and the start of the handler.
\* A failed commit raises out of execute (the except branch cannot commit
\* either); _execute_job logs it and finds no job to mark failed.
execute_begin(r) ==
    /\ r \in runs
    /\ r.pc = "start"
    /\ jobs' = CommitJob(jobs, r.job, r.obj, BeginUpdate(r.obj))
    /\ IF CommitFails(jobs, r.job)
       THEN /\ runs' = runs \ {r}
            /\ raised' = raised \cup {r.id}
            /\ UNCHANGED executions
       ELSE /\ executions' = executions \cup {NewExecution(r.id, r.job, now)}
            /\ runs' = (runs \ {r}) \cup
                          {[r EXCEPT !.pc = "handler", !.obj = jobs'[r.job],
                                     !.started_at = now]}
            /\ UNCHANGED raised
    /\ UNCHANGED <<now, triggers, scheduler, submitted, abandoned, nextRun, created,
                   lastError, calls>>

\* JobExecutor.execute from the return of _execute_with_timeout to the end
execute_end(r, outcome) ==
    /\ r \in runs
    /\ r.pc = "handler"
    /\ outcome # "timeout" => now - r.started_at <= r.obj.timeout_seconds
    /\ outcome = "timeout" => now - r.started_at >= r.obj.timeout_seconds
    /\ LET duration == now - r.started_at
           assigned == IF outcome = "success"
                       THEN SuccessUpdate(r.obj, r.started_at, duration, now)
                       ELSE FailureUpdate(r.obj, r.started_at, now)
       IN  /\ jobs' = CommitJob(jobs, r.job, r.obj, assigned)
           /\ IF CommitFails(jobs, r.job)
              THEN /\ raised' = raised \cup {r.id}
                   /\ UNCHANGED executions
              ELSE /\ executions' =
                         {IF e.id = r.id
                          THEN FinishedExecution(e, outcome, duration, now)
                          ELSE e : e \in executions}
                   /\ UNCHANGED raised
    /\ runs' = runs \ {r}
    /\ abandoned' = IF outcome = "timeout" THEN abandoned \cup {r.id} ELSE abandoned
    /\ UNCHANGED <<now, triggers, scheduler, submitted, nextRun, created, lastError, calls>>

\* a handler thread abandoned at its deadline returns
handler_returns(id) ==
    /\ id \in abandoned
    /\ abandoned' = abandoned \ {id}
    /\ executions' = target(executions, id)
    /\ UNCHANGED <<now, jobs, triggers, scheduler, submitted, runs, raised, nextRun, created,
                   lastError, calls>>

\* ---------------------------------------------------------- storage faults
\* the except branch of _execute_job, had it only counted the failure
MarkFailedKeepsStatus(job) == [job EXCEPT !.failed_runs = @ + 1]

\* _execute_job: the assignments of its except branch
MarkFailed(job) == [job EXCEPT !.status = "failed", !.failed_runs = @ + 1]

\* jobs table after the except branch of _execute_job: it loads the job again
\* and commits the mark; when the storage is still failing (recovered is
\* false) the load or the commit raises and the inner except passes
HandleDispatchError(tbl, job_id, recovered) ==
    IF recovered /\ tbl[job_id] # NoJob
    THEN [tbl EXCEPT ![job_id] = MarkFailed(@)]
    ELSE tbl

\* The storage rejects the commits of an execute call from some point on: the
\* first commit (pc = "start": the rolled-back session drops the new execution
\* record, and the except branch of execute cannot commit either) or the
\* commit after the handler and the one of the except branch (pc = "handler":
\* the record stays as the first commit left it).  The rollback discards the
\* assignments of execute, the exception leaves execute, and _execute_job
\* handles it.
execute_raises(r, outcome, recovered) ==
    /\ r \in runs
    /\ r.pc = "start" => outcome = "error"
    /\ r.pc = "handler" /\ outcome # "timeout" => now - r.started_at <= r.obj.timeout_seconds
    /\ r.pc = "handler" /\ outcome = "timeout" => now - r.started_at >= r.obj.timeout_seconds
    /\ runs' = runs \ {r}
    /\ raised' = raised \cup {r.id}
    /\ abandoned' = IF outcome = "timeout" THEN abandoned \cup {r.id} ELSE abandoned
    /\ jobs' = HandleDispatchError(jobs, r.job, recovered)
    /\ UNCHANGED <<now, executions, triggers, scheduler, submitted, nextRun, created,
                   lastError, calls>>

\* The storage rejects the load at the start of _execute_job
\* (Job.query.get raises): execute is not called.
_execute_job_raises(job_id, recovered) ==
    /\ job_id \in submitted
    /\ Cardinality(runs) < PoolSize
    /\ submitted' = submitted \ {job_id}
    /\ jobs' = HandleDispatchError(jobs, job_id, recovered)
    /\ UNCHANGED <<now, executions, triggers, scheduler, runs, abandoned, raised, nextRun,
                   created, lastError, calls>>

\* ------------------------------------------------------------------- clock
\* Time passes, one TickStep at a time.  The scheduler wakes at every due
\* time, a pool worker picks up a submitted call at once, a join returns at
\* its deadline and the stub handlers sleep less than one TickStep, so the
\* clock passes none of these.
Tick ==
    /\ now < MaxTime
    /\ \A j \in JobIds : triggers[j] # NoTrigger => triggers[j].next_fire > now
    /\ submitted = {}
    /\ \A r \in runs : r.pc = "handler" /\ now - r.started_at < r.obj.timeout_seconds
    /\ abandoned = {}
    /\ now' = now + TickStep
    /\ UNCHANGED <<jobs, executions, triggers, scheduler, submitted, runs, abandoned,
                   raised, nextRun, created, lastError, calls>>

\* ----------------------------------------------------------- specification
Init ==
    /\ now = 0
    /\ jobs = [j \in JobIds |-> NoJob]
    /\ executions = {}
    /\ triggers = [j \in JobIds |-> NoTrigger]
    /\ scheduler = TRUE
    /\ submitted = {}
    /\ runs = {}
    /\ abandoned = {}
    /\ raised = {}
    /\ nextRun = 1
    /\ created = {}
    /\ lastError = "None"
    /\ calls = 0

Next ==
    \/ \E d \in CreateInputs : create_job(d)
    \/ \E j \in JobIds, u \in UpdateInputs : update_job(j, u)
    \/ \E j \in JobIds : pause_job(j)
    \/ \E j \in JobIds : resume_job(j)
    \/ \E j \in JobIds : delete_job(j)
    \/ \E j \in JobIds : get_job_by_id(j)
    \/ \E j \in JobIds : get_job_executions(j)
    \/ \E j \in JobIds : fire(j)
    \/ \E j \in JobIds : _execute_job(j)
    \/ \E r \in runs : execute_begin(r)
    \/ \E r \in runs, o \in Outcomes : execute_end(r, o)
    \/ \E id \in abandoned : handler_returns(id)
    \/ Tick

Spec == Init /\ [][Next]_vars

\* the engine over a storage that may fail under the pool workers
StorageFault ==
    \/ \E r \in runs, o \in Outcomes, b \in BOOLEAN : execute_raises(r, o, b)
    \/ \E j \in JobIds, b \in BOOLEAN : _execute_job_raises(j, b)

FaultNext == Next \/ StorageFault

FaultSpec == Init /\ [][FaultNext]_vars

\* --------------------------------------- job service over failing backends
\* bodies the route passes to create_job unchecked: a two-character name with
\* priority, max_retries and timeout_seconds outside the ranges of
\* common/validators.py, an interval longer than seven days, a job_type
\* outside the JobType enumeration, and a cron expression of six fields
WideCreateInputs ==
    { [JobData(NoCron, 60, 11) EXCEPT !.name = <<"a", "b">>, !.priority = 11,
                                      !.timeout_seconds = 10],
      JobData(NoCron, 604801, 1),
      [JobData(NoCron, 60, 1) EXCEPT !.job_type = "webhook"],
      JobData(SixFieldCron, Null, 1) }

\* where create_job can be interrupted after validation: db.session.commit()
\* raises, or scheduler.add_job raises inside schedule_job
CreateFaults == {"commit", "arm"}

\* create_job when the storage rejects the commit, or the job store rejects
\* add_job after the commit: the except branch rolls the session back, which
\* undoes nothing that was committed, and raises InvalidJobConfigurationError
create_job_fails(job_data, at) ==
    /\ created # JobIds
    /\ calls < MaxCalls
    /\ _validate_job_data(job_data) /\ JobBuilds(job_data)
    /\ calls' = calls + 1
    /\ lastError' = "InvalidJobConfigurationError"
    /\ LET id == CHOOSE i \in JobIds \ created : \A k \in JobIds \ created : i <= k
           job == NewJob(job_data, now)
       IN  IF at = "commit"
           THEN UNCHANGED <<jobs, created, triggers>>
           ELSE /\ scheduler
                /\ job.is_active /\ job.next_run_time # Null
                /\ _create_trigger(job, now) # NoTrigger
                /\ jobs' = [jobs EXCEPT ![id] = job]
                /\ created' = created \cup {id}
                /\ triggers' = remove_job(triggers, id)
    /\ UNCHANGED <<now, executions, scheduler, submitted, runs, abandoned, raised, nextRun>>

\* update_job when the storage rejects its commit: reschedule_job has already
\* run for a body that names a recurrence field, the rollback restores the
\* record, and InvalidJobConfigurationError is raised
update_job_fails(job_id, updates) ==
    /\ calls < MaxCalls
    /\ jobs[job_id] # NoJob
    /\ calls' = calls + 1
    /\ lastError' = "InvalidJobConfigurationError"
    /\ LET set == [f \in DOMAIN jobs[job_id] |->
                     IF f \in DOMAIN updates /\ f \in allowed_fields
                     THEN updates[f] ELSE jobs[job_id][f]]
           rescheduled ==
               \E f \in {"cron_expression", "interval_seconds"} : f \in DOMAIN updates
           job == IF rescheduled
                  THEN [set EXCEPT !.next_run_time =
                          JobService_calculate_next_run_time(
                              set.cron_expression, set.interval_seconds, now)]
                  ELSE set
       IN  triggers' = IF rescheduled
                       THEN reschedule_job(triggers, job_id, job, now)
                       ELSE triggers
    /\ UNCHANGED <<now, jobs, executions, scheduler, submitted, runs, abandoned, raised,
                   nextRun, created>>

\* delete_job when the storage rejects its commit: remove_job has already
\* run, the rollback keeps the record and its executions, and the storage
\* error is re-raised
delete_job_fails(job_id) ==
    /\ calls < MaxCalls
    /\ jobs[job_id] # NoJob
    /\ calls' = calls + 1
    /\ lastError' = "SQLAlchemyError"
    /\ triggers' = remove_job(triggers, job_id)
    /\ UNCHANGED <<now, jobs, executions, scheduler, submitted, runs, abandoned, raised,
                   nextRun, created>>

\* the storage or the job store fails under a JobService call
ServiceFault ==
    \/ \E d \in CreateInputs \cup WideCreateInputs, at \in CreateFaults :
           create_job_fails(d, at)
    \/ \E j \in JobIds, u \in UpdateInputs : update_job_fails(j, u)
    \/ \E j \in JobIds : delete_job_fails(j)

\* the engine with the bodies of WideCreateInputs and failing backends under
\* the JobService
ServiceNext ==
    \/ Next
    \/ \E d \in WideCreateInputs : create_job(d)
    \/ ServiceFault

ServiceSpec == Init /\ [][ServiceNext]_vars

\* ------------------------------------------------- the calculators alone
\* reference times: the clock read by datetime.now() inside a calculator
RefTimes == {k * (TickStep \div 2) : k \in 0..(2 * MaxTicks)}

\* values of Job.cron_expression and Job.interval_seconds a calculator may
\* be given (unset, empty / zero, set)
CronInputs == {NoCron, "", EveryMinute, EveryTwoMinutes, SixFieldCron, BadCron}
IntervalInputs == {Null, 0, 60, 120}

\* a job as one of the calculators may receive it
CalcInit ==
    /\ now \in RefTimes
    /\ \E c \in CronInputs, i \in IntervalInputs, n \in 0..MaxRetryCount :
          jobs = [j \in JobIds |->
                    IF j = 1
                    THEN [NewJob(JobData(c, i, MaxRetryCount), 0) EXCEPT
                             !.retry_count = n, !.next_run_time = Null]
                    ELSE NoJob]
    /\ executions = {}
    /\ triggers = [j \in JobIds |-> NoTrigger]
    /\ scheduler = TRUE
    /\ submitted = {}
    /\ runs = {}
    /\ abandoned = {}
    /\ raised = {}
    /\ nextRun = 1
    /\ created = {1}
    /\ lastError = "None"
    /\ calls = 0

\* job.next_run_time = self._calculate_next_run_time(job.cron_expression,
\* job.interval_seconds) in JobService
ServiceCalculates(j) ==
    /\ jobs[j] # NoJob
    /\ jobs' = [jobs EXCEPT ![j].next_run_time =
                   JobService_calculate_next_run_time(
                       jobs[j].cron_expression, jobs[j].interval_seconds, now)]
    /\ UNCHANGED <<now, executions, triggers, scheduler, submitted, runs, abandoned,
                   raised, nextRun, created, lastError, calls>>

\* job.next_run_time = self._calculate_next_run_time(job) in JobExecutor
ExecutorCalculates(j) ==
    /\ jobs[j] # NoJob
    /\ jobs' = [jobs EXCEPT ![j].next_run_time =
                   JobExecutor_calculate_next_run_time(jobs[j], now)]
    /\ UNCHANGED <<now, executions, triggers, scheduler, submitted, runs, abandoned,
                   raised, nextRun, created, lastError, calls>>

\* job.next_run_time = self._calculate_retry_time(job) in JobExecutor
ExecutorCalculatesRetry(j) ==
    /\ jobs[j] # NoJob
    /\ jobs' = [jobs EXCEPT ![j].next_run_time = _calculate_retry_time(jobs[j], now)]
    /\ UNCHANGED <<now, executions, triggers, scheduler, submitted, runs, abandoned,
                   raised, nextRun, created, lastError, calls>>

\* trigger = self._create_trigger(job) in SchedulerService
SchedulerCreatesTrigger(j) ==
    /\ jobs[j] # NoJob
    /\ triggers' = [triggers EXCEPT ![j] = _create_trigger(jobs[j], now)]
    /\ UNCHANGED <<now, jobs, executions, scheduler, submitted, runs, abandoned, raised,
                   nextRun, created, lastError, calls>>

CalcNext ==
    \/ \E j \in JobIds : ServiceCalculates(j)
    \/ \E j \in JobIds : ExecutorCalculates(j)
    \/ \E j \in JobIds : ExecutorCalculatesRetry(j)
    \/ \E j \in JobIds : SchedulerCreatesTrigger(j)

CalcSpec == CalcInit /\ [][CalcNext]_vars

\* ------------------------------------ the job service as the routes build it
\* routes/jobs.py builds JobService() with no argument, so its
\* SchedulerService has scheduler = None, and nothing calls set_scheduler
NoSchedulerInit ==
    /\ now = 0
    /\ jobs = [j \in JobIds |-> NoJob]
    /\ executions = {}
    /\ triggers = [j \in JobIds |-> NoTrigger]
    /\ scheduler = FALSE
    /\ submitted = {}
    /\ runs = {}
    /\ abandoned = {}
    /\ raised = {}
    /\ nextRun = 1
    /\ created = {}
    /\ lastError = "None"
    /\ calls = 0

\* a body the update route passes to update_job unchecked: a negative interval
WideUpdateInputs == { ("interval_seconds" :> -60) }

NoSchedulerNext ==
    \/ \E d \in CreateInputs : create_job(d)
    \/ \E j \in JobIds, u \in UpdateInputs \cup WideUpdateInputs : update_job(j, u)
    \/ \E j \in JobIds : pause_job(j)
    \/ \E j \in JobIds : resume_job(j)
    \/ \E j \in JobIds : delete_job(j)
    \/ \E j \in JobIds : get_job_by_id(j)
    \/ \E j \in JobIds : get_job_executions(j)
    \/ Tick

NoSchedulerSpec == NoSchedulerInit /\ [][NoSchedulerNext]_vars

\* ------------------------------------------------ more jobs than workers
\* one job more than the pool has workers
PoolJobIds == 1..(PoolSize + 1)

\* PoolSize + 1 interval jobs created at time 0, all due at the same time
PoolInit ==
    /\ now = TickStep
    /\ jobs = [j \in PoolJobIds |-> NewJob(JobData(NoCron, 60, 2), 0)]
    /\ executions = {}
    /\ triggers = [j \in PoolJobIds |-> _create_trigger(NewJob(JobData(NoCron, 60, 2), 0), 0)]
    /\ scheduler = TRUE
    /\ submitted = {}
    /\ runs = {}
    /\ abandoned = {}
    /\ raised = {}
    /\ nextRun = 1
    /\ created = PoolJobIds
    /\ lastError = "None"
    /\ calls = MaxCalls

\* The scheduler thread submits the due jobs one after the other, in the
\* order of the job store; the workers take the calls from the queue of the
\* pool in that order, and the executions go through their commits in the
\* order in which they started.
PoolNext ==
    \/ \E j \in PoolJobIds :
          /\ \A k \in PoolJobIds : k < j => triggers[k].next_fire > now
          /\ fire(j)
    \/ \E j \in PoolJobIds :
          /\ \A k \in submitted : j <= k
          /\ _execute_job(j)
    \/ \E r \in runs :
          /\ \A q \in runs : q.pc = "start" => r.id <= q.id
          /\ execute_begin(r)
    \/ \E r \in runs :
          /\ \A q \in runs : q.pc = "handler" => r.id <= q.id
          /\ execute_end(r, "success")

PoolSpec == PoolInit /\ [][PoolNext]_vars

\* ================================================================== claims
RunsOf(job_id) == {r \in runs : r.job = job_id}
RowsOf(rows, job_id) == {e \in rows : e.job_id = job_id}
Persisted(job_id) == jobs[job_id] # NoJob
Terminal(e) == e.status \in {"completed", "failed"}

\* C1: for every job id at most one execute call is in flight and at most one
\* of its execution records is not yet finalized, in every reachable state,
\* whatever replaces the trigger meanwhile: a fire that finds a run of the
\* job in flight is skipped.
C1_AtMostOneInFlight ==
    \A j \in JobIds :
        /\ Cardinality(RunsOf(j)) <= 1
        /\ Cardinality({e \in RowsOf(executions, j) : e.status = "running"}) <= 1

\* C1 witness: resume_job replaced the trigger of a job while its run was in
\* flight (the run started earlier, the status is pending again and
\* next_run_time is the resume's), the new trigger came due at "now", and its
\* fire was skipped: the run is still the only one.
C1_Witness ==
    \E j \in JobIds : \E r \in RunsOf(j) :
        /\ Persisted(j)
        /\ r.pc = "handler"
        /\ r.started_at < now
        /\ jobs[j].status = "pending"
        /\ jobs[j].next_run_time = now
        /\ triggers[j] # NoTrigger
        /\ triggers[j].next_fire > now

Failures == {"error", "timeout"}
RowOf(rows, id) == CHOOSE e \in rows : e.id = id
\* no JobService call changed the job's row while run r was waiting for its handler
Undisturbed(r) == Persisted(r.job) /\ jobs[r.job] = r.obj

\* C2: when a job with max_retries = N has failed on every run and the run
\* that ends is its (N+1)-th, the job ends with status failed, retry_count N
\* and no next_run_time, and has exactly N+1 execution records, all failed.
C2_RetryExhaustion ==
    [][\A r \in runs : \A o \in Failures :
         (/\ execute_end(r, o)
          /\ Undisturbed(r)
          /\ \A e \in RowsOf(executions', r.job) : e.status = "failed"
          /\ Cardinality(RowsOf(executions', r.job)) = jobs[r.job].max_retries + 1)
         => /\ jobs'[r.job].status = "failed"
            /\ jobs'[r.job].retry_count = jobs[r.job].max_retries
            /\ jobs'[r.job].next_run_time = Null]_vars

\* C3: a failed run of a job whose retry_count was r before the run leaves
\* retry_count r+1, status pending and next_run_time now + min(2^(r+1), 60)
\* minutes if r < max_retries, and status failed, no next_run_time and
\* retry_count r otherwise; total_runs and failed_runs grow by one.
C3_FailureStep ==
    [][\A r \in runs : \A o \in Failures :
         (execute_end(r, o) /\ Undisturbed(r))
         => LET before == r.retry_before
                job == jobs'[r.job]
            IN  /\ job.total_runs = jobs[r.job].total_runs + 1
                /\ job.failed_runs = jobs[r.job].failed_runs + 1
                /\ IF before < job.max_retries
                   THEN /\ job.retry_count = before + 1
                        /\ job.status = "pending"
                        /\ job.next_run_time =
                              now + Min(Pow2(before + 1), RetryCapMinutes) * SecondsPerMinute
                   ELSE /\ job.retry_count = before
                        /\ job.status = "failed"
                        /\ job.next_run_time = Null]_vars

\* C4: a successful run leaves the job completed with retry_count 0,
\* total_runs and successful_runs one higher, failed_runs as it was and
\* last_run_time at the run's started_at, and its execution record completed
\* with completed_at and duration set.
C4_SuccessStep ==
    [][\A r \in runs :
         (execute_end(r, "success") /\ Persisted(r.job))
         => LET job == jobs'[r.job]
                e == RowOf(executions', r.id)
            IN  /\ job.status = "completed"
                /\ job.retry_count = 0
                /\ job.total_runs = jobs[r.job].total_runs + 1
                /\ job.successful_runs = jobs[r.job].successful_runs + 1
                /\ job.failed_runs = jobs[r.job].failed_runs
                /\ job.last_run_time = e.started_at
                /\ e.started_at = RowOf(executions, r.id).started_at
                /\ e.status = "completed"
                /\ e.completed_at = now
                /\ e.duration = now - e.started_at]_vars

\* C4 witness: a job whose first run took a whole tick and succeeded
C4_Witness ==
    \E j \in JobIds : \E e \in RowsOf(executions, j) :
        /\ Persisted(j)
        /\ jobs[j].status = "completed"
        /\ jobs[j].total_runs = 1
        /\ jobs[j].successful_runs = 1
        /\ e.status = "completed"
        /\ e.duration = TickStep
        /\ jobs[j].last_run_time = e.started_at

Ids(rows) == {e.id : e \in rows}
RunIdsOf(rs, job_id) == {r.id : r \in {x \in rs : x.job = job_id}}
ValidRecurrence(job) ==
    IF TruthyStr(job.cron_expression) THEN FromCrontabValid(job.cron_expression)
    ELSE TruthyInt(job.interval_seconds) /\ job.interval_seconds > 0
Stats(job) ==
    <<job.retry_count, job.total_runs, job.successful_runs, job.failed_runs,
      job.average_runtime>>

\* C5: when the handler is still running at the deadline, execute stops
\* waiting exactly timeout_seconds after it started to wait, finalizes its one
\* execution record as failed with a timeout message, counts the run once
\* (total_runs and failed_runs one higher) and applies the retry step of a
\* failure (pending with one more retry, or failed; next_run_time the retry
\* time or none when no JobService call changed the row meanwhile); the
\* abandoned handler returning later changes no job and no execution record.
C5_Timeout ==
    [][/\ \A r \in runs :
            (execute_end(r, "timeout") /\ Persisted(r.job))
            => LET job == jobs'[r.job]
                   e == RowOf(executions', r.id)
               IN  /\ Ids(executions') = Ids(executions)
                   /\ Cardinality({x \in executions' : x.id = r.id}) = 1
                   /\ e.status = "failed"
                   /\ e.error_message = "timeout"
                   /\ e.duration = r.obj.timeout_seconds
                   /\ job.total_runs = jobs[r.job].total_runs + 1
                   /\ job.failed_runs = jobs[r.job].failed_runs + 1
                   /\ job.successful_runs = jobs[r.job].successful_runs
                   /\ IF r.obj.retry_count < r.obj.max_retries
                      THEN /\ job.status = "pending"
                           /\ job.retry_count = r.obj.retry_count + 1
                      ELSE /\ job.status = "failed"
                           /\ job.retry_count = jobs[r.job].retry_count
                   /\ Undisturbed(r)
                         => job.next_run_time =
                               IF r.obj.retry_count < r.obj.max_retries
                               THEN now + RetryDelayMinutes(job.retry_count) * SecondsPerMinute
                               ELSE Null
       /\ \A id \in abandoned :
            handler_returns(id) => jobs' = jobs /\ executions' = executions]_vars

\* C5 witness: a run timed out, was counted once, and its abandoned handler
\* has returned since
C5_Witness ==
    \E e \in executions :
        /\ e.error_message = "timeout"
        /\ e.status = "failed"
        /\ e.id \notin abandoned
        /\ Persisted(e.job_id)
        /\ jobs[e.job_id].total_runs = 1
        /\ jobs[e.job_id].failed_runs = 1

C7_Pause ==
    [][\A j \in JobIds :
         /\ (pause_job(j) /\ Persisted(j))
            => /\ triggers'[j] = NoTrigger
               /\ jobs'[j].is_active = FALSE
               /\ jobs'[j].status = "paused"
               /\ Stats(jobs'[j]) = Stats(jobs[j])
               /\ lastError' = "None"
         /\ (Persisted(j) /\ ~jobs[j].is_active)
            => RunIdsOf(runs', j) \subseteq RunIdsOf(runs, j)]_vars

\* C7 witness: an armed job that had failed once was paused: no trigger, the
\* counters of the failed run still there
C7_Witness ==
    \E j \in JobIds :
        /\ Persisted(j)
        /\ jobs[j].status = "paused"
        /\ ~jobs[j].is_active
        /\ triggers[j] = NoTrigger
        /\ jobs[j].retry_count = 1
        /\ jobs[j].failed_runs = 1
        /\ RunsOf(j) = {}

\* C8: resume_job on a paused job with a valid recurrence leaves is_active
\* true, status pending, next_run_time computed from the time of the resume
\* (resume time + interval_seconds for an interval job, the next cron match
\* after the resume for a cron job) and a trigger armed for the job.
C8_Resume ==
    [][\A j \in JobIds :
         (/\ resume_job(j)
          /\ Persisted(j)
          /\ jobs[j].status = "paused"
          /\ ~jobs[j].is_active
          /\ ValidRecurrence(jobs[j]))
         => /\ jobs'[j].is_active
            /\ jobs'[j].status = "pending"
            /\ jobs'[j].next_run_time > now
            /\ ~TruthyStr(jobs[j].cron_expression)
                  => jobs'[j].next_run_time = now + jobs[j].interval_seconds
            /\ TruthyStr(jobs[j].cron_expression)
                  => /\ jobs'[j].next_run_time % CronPeriod(jobs[j].cron_expression) = 0
                     /\ jobs'[j].next_run_time - now <= CronPeriod(jobs[j].cron_expression)
            /\ triggers'[j] # NoTrigger
            /\ triggers'[j].next_fire > now
            /\ lastError' = "None"]_vars

\* C8 witness: an interval job that ran once was resumed later than its first
\* due time: pending again, due one interval after "now", trigger armed
C8_Witness ==
    \E j \in JobIds :
        /\ Persisted(j)
        /\ jobs[j].status = "pending"
        /\ jobs[j].is_active
        /\ jobs[j].successful_runs = 1
        /\ jobs[j].failed_runs = 0
        /\ ~TruthyStr(jobs[j].cron_expression)
        /\ jobs[j].next_run_time = now + jobs[j].interval_seconds
        /\ triggers[j] # NoTrigger
        /\ triggers[j].next_fire = jobs[j].next_run_time
        /\ now > jobs[j].last_run_time

\* C9: delete_job on a persisted job leaves no record of it, none of its
\* execution records and no trigger for it, and leaves every other job, its
\* execution records and its trigger as they were.
C9_Delete ==
    [][\A j \in JobIds :
         (delete_job(j) /\ Persisted(j))
         => /\ jobs'[j] = NoJob
            /\ RowsOf(executions', j) = {}
            /\ triggers'[j] = NoTrigger
            /\ lastError' = "None"
            /\ \A k \in JobIds \ {j} :
                  /\ jobs'[k] = jobs[k]
                  /\ RowsOf(executions', k) = RowsOf(executions, k)
                  /\ triggers'[k] = triggers[k]]_vars

\* C9 witness: two jobs each ran once; one was deleted with its record, the
\* other still has its record and its trigger
C9_Witness ==
    \E j, k \in JobIds :
        /\ j # k
        /\ j \in created
        /\ ~Persisted(j)
        /\ Persisted(k)
        /\ triggers[k] # NoTrigger
        /\ nextRun = 3
        /\ runs = {}
        /\ raised = {}
        /\ Cardinality(executions) = 1
        /\ RowsOf(executions, k) = executions

\* C10: when an execute call ends on a job deleted while it was in flight,
\* the job record is not re-created, no execution record refers to an absent
\* job, and no trigger exists for the deleted id.
C10_DeleteWhileFiring ==
    [][/\ \A r \in runs :
            (/\ ~Persisted(r.job)
             /\ execute_begin(r) \/ \E o \in Outcomes : execute_end(r, o))
            => /\ jobs'[r.job] = NoJob
               /\ RowsOf(executions', r.job) = {}
               /\ triggers'[r.job] = NoTrigger
       /\ \A e \in executions' : jobs'[e.job_id] # NoJob
       /\ \A j \in created : ~Persisted(j) => triggers'[j] = NoTrigger]_vars

\* C10 witness: the execute call of a deleted job has ended (it raised into
\* _execute_job) and left nothing behind
C10_Witness ==
    \E j \in created :
        /\ ~Persisted(j)
        /\ raised # {}
        /\ RunsOf(j) = {}
        /\ RowsOf(executions, j) = {}
        /\ triggers[j] = NoTrigger

\* C11: when the fire of a trigger is handled for a job whose persisted
\* is_active is false, or whose record no longer exists, execute is not
\* called, no execution record is created and no job record changes.
C11_StaleFireSkipped ==
    [][\A j \in JobIds :
         (_execute_job(j) /\ (jobs[j] = NoJob \/ ~jobs[j].is_active))
         => /\ runs' = runs
            /\ nextRun' = nextRun
            /\ executions' = executions
            /\ jobs' = jobs]_vars

\* C11 witness: the trigger of an interval job deactivated by update_job has
\* fired (it moved one interval past the stored due time) and the fire was
\* handled: no call is queued, no run was ever started, nothing was counted
C11_Witness ==
    \E j \in JobIds :
        /\ Persisted(j)
        /\ ~jobs[j].is_active
        /\ jobs[j].status = "pending"
        /\ triggers[j] # NoTrigger
        /\ triggers[j].kind = "interval"
        /\ triggers[j].next_fire = jobs[j].next_run_time + triggers[j].seconds
        /\ now = jobs[j].next_run_time
        /\ submitted = {}
        /\ runs = {}
        /\ nextRun = 1
        /\ executions = {}
        /\ jobs[j].total_runs = 0

\* C12: when the fire of a trigger has been handled for a job whose persisted
\* is_active is false, the scheduler holds no trigger for that job id.
C12_StaleTriggerTornDown ==
    [][\A j \in JobIds :
         (_execute_job(j) /\ Persisted(j) /\ ~jobs[j].is_active)
         => triggers'[j] = NoTrigger]_vars

\* the JobService call of this step that passes job j to schedule_job or reschedule_job
Schedules(j) ==
    \/ resume_job(j)
    \/ \E u \in UpdateInputs :
          update_job(j, u) /\ \E f \in {"cron_expression", "interval_seconds"} : f \in DOMAIN u

\* C13: the scheduler holds at most one trigger per job id (the job store is
\* keyed by id); schedule_job for a job from which a trigger can be built
\* leaves exactly that new trigger under the id, whatever was there, and
\* leaves the other ids alone; a second schedule_job(job) changes nothing
\* more; reschedule_job(job) gives what schedule_job(job) gives; a trigger
\* that has fired, and a trigger just armed, is due strictly later than now,
\* so one due time submits at most one call.
C13_ScheduleIdempotent ==
    [][\A j \in JobIds :
         /\ Persisted(j)
            => LET once == schedule_job(triggers, j, jobs[j], now)
               IN  /\ schedule_job(once, j, jobs[j], now) = once
                   /\ reschedule_job(triggers, j, jobs[j], now) = once
                   /\ \A k \in JobIds \ {j} : once[k] = triggers[k]
         /\ (Schedules(j) /\ Persisted(j) /\ _create_trigger(jobs'[j], now) # NoTrigger)
            => /\ triggers'[j] = _create_trigger(jobs'[j], now)
               /\ triggers'[j].next_fire > now
               /\ \A k \in JobIds \ {j} : triggers'[k] = triggers[k]
         /\ fire(j) => triggers'[j] # NoTrigger /\ triggers'[j].next_fire > now]_vars

\* C13 witness: update_job gave an armed job a new interval: the trigger under
\* its id is the new one, due one new interval from now
C13_Witness ==
    \E j \in JobIds :
        /\ Persisted(j)
        /\ jobs[j].is_active
        /\ jobs[j].interval_seconds = 2 * TickStep
        /\ triggers[j] # NoTrigger
        /\ triggers[j].kind = "interval"
        /\ triggers[j].seconds = jobs[j].interval_seconds
        /\ triggers[j].next_fire = now + jobs[j].interval_seconds
        /\ jobs[j].next_run_time = triggers[j].next_fire
        /\ calls = 2

\* C14: schedule_job for a job with neither a parsable cron expression nor
\* an interval does not raise and leaves the scheduler's triggers exactly as
\* they were, the trigger already held for that id included.
C14_NoRecurrenceNoOp ==
    [][\A j \in JobIds :
         (/\ Schedules(j)
          /\ Persisted(j)
          /\ ~CronValid(jobs'[j].cron_expression)
          /\ ~TruthyInt(jobs'[j].interval_seconds))
         => /\ triggers' = triggers
            /\ lastError' = "None"]_vars

\* C15: remove_job(id) never raises; for an id without a trigger it leaves
\* the triggers unchanged, for an id with a trigger it removes that trigger
\* and no other, and a second remove_job(id) changes nothing more.
C15_RemoveIdempotent ==
    \A j \in JobIds :
        LET once == remove_job(triggers, j)
        IN  /\ once \in [JobIds -> {NoTrigger} \cup {triggers[k] : k \in JobIds}]
            /\ triggers[j] = NoTrigger => once = triggers
            /\ once[j] = NoTrigger
            /\ \A k \in JobIds \ {j} : once[k] = triggers[k]
            /\ remove_job(once, j) = once

\* C15 witness: of two armed jobs one was paused: its trigger is gone, the
\* other's is held, and removing the paused id again would find none
C15_Witness ==
    \E j, k \in JobIds :
        /\ j # k
        /\ Persisted(j)
        /\ jobs[j].status = "paused"
        /\ triggers[j] = NoTrigger
        /\ Persisted(k)
        /\ jobs[k].is_active
        /\ triggers[k] # NoTrigger
        /\ lastError = "None"
        /\ calls = 3

\* this step is _execute_job handling an exception raised while dispatching
\* job j; "recovered" tells whether the storage answers its except branch
DispatchError(j, recovered) ==
    \/ _execute_job_raises(j, recovered)
    \/ \E r \in RunsOf(j), o \in Outcomes : execute_raises(r, o, recovered)

\* the triggers, and the records of every job but j, are as they were
OthersUnchanged(j) ==
    /\ triggers' = triggers
    /\ submitted' \subseteq submitted
    /\ executions' = executions
    /\ \A k \in JobIds \ {j} : jobs'[k] = jobs[k] /\ RunsOf(k) = {r \in runs' : r.job = k}

\* C16 as stated: when an exception is raised while dispatching one job,
\* outside the handler, _execute_job ends the call, the job is left with
\* status failed and failed_runs one higher, and the triggers and the records
\* of all other jobs are unchanged.
C16_DispatchErrorMarksFailed ==
    [][\A j \in JobIds : \A b \in BOOLEAN :
         (DispatchError(j, b) /\ Persisted(j))
         => /\ jobs'[j].status = "failed"
            /\ jobs'[j].failed_runs = jobs[j].failed_runs + 1
            /\ OthersUnchanged(j)]_vars

\* C16 amended: when an exception is raised while dispatching one job,
\* outside the handler, _execute_job ends the call; if the storage lets it
\* load and commit the job again, the job is left with status failed and
\* failed_runs one higher and its other fields as stored, otherwise its
\* record is left as it was; the triggers and the records of all other jobs
\* are unchanged in both cases.
C16_DispatchErrorIsolation ==
    [][\A j \in JobIds :
         /\ (DispatchError(j, TRUE) /\ Persisted(j))
            => /\ jobs'[j].status = "failed"
               /\ jobs'[j].failed_runs = jobs[j].failed_runs + 1
               /\ [jobs'[j] EXCEPT !.status = jobs[j].status,
                                   !.failed_runs = jobs[j].failed_runs] = jobs[j]
               /\ OthersUnchanged(j)
         /\ (DispatchError(j, FALSE) \/ (DispatchError(j, TRUE) /\ ~Persisted(j)))
            => /\ jobs' = jobs
               /\ OthersUnchanged(j)]_vars

\* C16 witness: the execute call of one job raised and _execute_job marked
\* the job failed (failed_runs counted, total_runs not), while the other job
\* is still armed
C16_Witness ==
    \E j, k \in JobIds :
        /\ j # k
        /\ Persisted(j)
        /\ jobs[j].status = "failed"
        /\ jobs[j].failed_runs = 1
        /\ jobs[j].total_runs = 0
        /\ raised # {}
        /\ RunsOf(j) = {}
        /\ Persisted(k)
        /\ triggers[k] # NoTrigger

\* C17: in every reachable state every persisted job has
\* retry_count <= max_retries, also after update_job lowered max_retries.
C17_RetryWithinMax ==
    \A j \in JobIds : Persisted(j) => jobs[j].retry_count <= jobs[j].max_retries

\* an execute call for job j is between its first commit and its last
InFlight(j) == \E r \in RunsOf(j) : r.pc = "handler"

C19_NextRunIffSchedulable ==
    \A j \in JobIds :
        (Persisted(j) /\ RunsOf(j) = {} /\ j \notin submitted)
        => (jobs[j].next_run_time # Null
               <=> /\ jobs[j].is_active
                   /\ ValidRecurrence(jobs[j])
                   /\ jobs[j].status # "failed")

\* C20: the scheduler holds a trigger for job id j if and only if a persisted
\* job j exists with is_active true and a next_run_time, after any sequence
\* of create_job, update_job, pause_job, resume_job and delete_job.
C20_TriggerIffArmed ==
    \A j \in JobIds :
        triggers[j] # NoTrigger
           <=> (Persisted(j) /\ jobs[j].is_active /\ jobs[j].next_run_time # Null)

\* C21: when an execution ends with the retries exhausted (the job is left
\* with status failed and no next_run_time) the scheduler holds no trigger
\* for the job, so it is not dispatched again until it is resumed or edited.
C21_ExhaustedDisarms ==
    [][\A r \in runs : \A o \in Failures :
         (/\ execute_end(r, o)
          /\ Persisted(r.job)
          /\ jobs'[r.job].status = "failed"
          /\ jobs'[r.job].next_run_time = Null)
         => triggers'[r.job] = NoTrigger]_vars

\* C22: after an execution has written a next_run_time, the next dispatch of
\* the job to the executor does not happen before that time.
C22_RearmedAtNextRunTime ==
    [][\A j \in JobIds :
         (/\ _execute_job(j)
          /\ runs' # runs
          /\ jobs[j].last_run_time # Null
          /\ jobs[j].status \in {"completed", "pending"}
          /\ jobs[j].next_run_time # Null)
         => now >= jobs[j].next_run_time]_vars

\* C23: a job that stays active, is never resumed or updated, and whose
\* every run has failed has at most max_retries + 1 execution records: after
\* that many failures it is dormant and is not run again.
C23_FailuresBounded ==
    calls = Cardinality(created)
    => \A j \in JobIds :
          (/\ Persisted(j)
           /\ \A e \in RowsOf(executions, j) : e.status = "failed")
          => Cardinality(RowsOf(executions, j)) <= jobs[j].max_retries + 1

\* C26: every persisted job has exactly one of cron_expression and
\* interval_seconds set, after any sequence of create_job and update_job
\* calls.
C26_ExactlyOneRecurrence ==
    \A j \in JobIds :
        Persisted(j)
        => (TruthyStr(jobs[j].cron_expression) <=> ~TruthyInt(jobs[j].interval_seconds))

\* the fields of a job record no update may set
Protected == DOMAIN NewJob(JobData(NoCron, Null, 0), 0) \ allowed_fields

\* C28: update_job changes no field outside the whitelist, next_run_time
\* excepted when the body names cron_expression or interval_seconds; when it
\* names neither, next_run_time and the scheduler's triggers are unchanged.
C28_UpdateFrame ==
    [][\A j \in JobIds : \A u \in UpdateInputs :
         (update_job(j, u) /\ Persisted(j))
         => /\ \A f \in Protected \ {"next_run_time"} : jobs'[j][f] = jobs[j][f]
            /\ \A f \in allowed_fields \cap DOMAIN jobs[j] :
                  jobs'[j][f] = IF f \in DOMAIN u THEN u[f] ELSE jobs[j][f]
            /\ (\A f \in {"cron_expression", "interval_seconds"} : f \notin DOMAIN u)
                  => /\ jobs'[j].next_run_time = jobs[j].next_run_time
                     /\ triggers' = triggers
            /\ \A k \in JobIds \ {j} : jobs'[k] = jobs[k]
            /\ executions' = executions]_vars

\* C28 witness: update_job deactivated a job that had failed once: is_active
\* is false, and the status, the counters, next_run_time and the trigger are
\* what the run left
C28_Witness ==
    \E j \in JobIds :
        /\ Persisted(j)
        /\ lastError = "None"
        /\ RunsOf(j) = {}
        /\ ~jobs[j].is_active
        /\ jobs[j].status = "pending"
        /\ jobs[j].retry_count = 1
        /\ jobs[j].total_runs = 1
        /\ jobs[j].next_run_time > now
        /\ triggers[j] # NoTrigger

\* a JobService call of this step that is given job id j
CallOn(j) ==
    \/ get_job_by_id(j)
    \/ get_job_executions(j)
    \/ pause_job(j)
    \/ resume_job(j)
    \/ delete_job(j)
    \/ \E u \in UpdateInputs : update_job(j, u)

\* C30: get_job_by_id, update_job, delete_job, pause_job, resume_job and
\* get_job_executions given an id without a persisted job raise JobNotFound
\* and leave the stored records and the scheduler's triggers unchanged.
C30_JobNotFound ==
    [][\A j \in JobIds :
         (CallOn(j) /\ ~Persisted(j))
         => /\ lastError' = "JobNotFoundError"
            /\ jobs' = jobs
            /\ executions' = executions
            /\ triggers' = triggers]_vars

\* C30 witness: a call on the id of a deleted job raised JobNotFound
C30_Witness ==
    \E j \in JobIds :
        /\ j \in created
        /\ ~Persisted(j)
        /\ lastError = "JobNotFoundError"
        /\ triggers[j] = NoTrigger
        /\ calls = 3

\* every body create_job is given in ServiceSpec
AllCreateInputs == CreateInputs \cup WideCreateInputs

\* C24: when the commit of update_job or of delete_job fails, the call reports
\* the failure and the trigger set is what it was before the call, so the job
\* is still persisted and armed as before
C24_StorageFailureKeepsTriggers ==
    [][\A j \in JobIds :
         (delete_job_fails(j) \/ \E u \in UpdateInputs : update_job_fails(j, u))
         => /\ lastError' # "None"
            /\ triggers' = triggers
            /\ jobs' = jobs]_vars

\* C25: create_job is all-or-nothing: when it raises
\* InvalidJobConfigurationError no job has been persisted and no trigger
\* added; when it returns, the job is persisted with its computed
\* next_run_time and, being active, has one armed trigger
C25_CreateAllOrNothing ==
    [][\A d \in AllCreateInputs :
         (create_job(d) \/ \E at \in CreateFaults : create_job_fails(d, at))
         => IF lastError' = "InvalidJobConfigurationError"
            THEN jobs' = jobs /\ triggers' = triggers
            ELSE \E j \in JobIds :
                    /\ ~Persisted(j)
                    /\ jobs'[j] = NewJob(d, now)
                    /\ jobs'[j].is_active => triggers'[j] # NoTrigger]_vars

\* the ranges of common/validators.py for the fields of a create_job body
InRange(d) ==
    /\ Len(d.name) >= 3 /\ Len(d.name) <= 255
    /\ d.priority >= 1 /\ d.priority <= 10
    /\ d.max_retries >= 0 /\ d.max_retries <= 10
    /\ d.timeout_seconds >= 30 /\ d.timeout_seconds <= 86400
    /\ d.interval_seconds # Null
           => d.interval_seconds >= 60 /\ d.interval_seconds <= 604800

\* C27: create_job rejects, before persisting anything, every body whose
\* name, priority, max_retries, timeout_seconds or interval_seconds is out
\* of range
C27_CreateRejectsOutOfRange ==
    [][\A d \in AllCreateInputs :
         (create_job(d) /\ ~InRange(d))
         => lastError' = "InvalidJobConfigurationError" /\ jobs' = jobs]_vars

\* C29: a body whose job_type is not one of the built-in types, and which is
\* valid otherwise, passes the validation of create_job and is persisted
C29_UnknownTypeAccepted ==
    [][\A d \in AllCreateInputs :
         (/\ create_job(d)
          /\ d.job_type \notin JobTypes
          /\ _validate_job_data([d EXCEPT !.job_type = "custom"]))
         => /\ lastError' = "None"
            /\ \E j \in JobIds : ~Persisted(j) /\ jobs'[j].job_type = d.job_type]_vars

\* C31: no JobExecution row in storage has a non-terminal status: every
\* persisted row is completed or failed
C31_OnlyTerminalRows ==
    \A e \in executions : Terminal(e)

\* C32: a reader never sees a job whose status is the outcome of a run
\* (completed, failed) while the JobExecution of that run is still running,
\* nor a terminal JobExecution while the job shows running for that run
C32_OutcomeAtomic ==
    \A j \in JobIds :
        Persisted(j) =>
            /\ \A e \in RowsOf(executions, j) :
                   e.status = "running" => jobs[j].status \notin {"completed", "failed"}
            /\ jobs[j].status = "running" =>
                   \E e \in RowsOf(executions, j) : e.status = "running"

\* the delays of the specification: 1, 2, 4, 8, 16, 32, 60, 60, ... minutes
BackoffMinutes(n) == IF n < 6 THEN <<1, 2, 4, 8, 16, 32>>[n + 1] ELSE 60

\* C33: for every retry_count >= 0 the retry time is now plus
\* min(2^retry_count, 60) minutes; the delay never decreases as retry_count
\* grows and never exceeds 60 minutes
C33_RetryBackoff ==
    [][\A j \in JobIds :
         ExecutorCalculatesRetry(j)
         => /\ jobs'[j].next_run_time
                  = now + BackoffMinutes(jobs[j].retry_count) * 60
            /\ jobs'[j].next_run_time - now <= 60 * 60
            /\ \A n \in 0..jobs[j].retry_count :
                   _calculate_retry_time([jobs[j] EXCEPT !.retry_count = n], now)
                       <= jobs'[j].next_run_time]_vars

\* C33 witness: the retry time of a job with retry_count 7 was computed: one
\* hour after the reference time, where 2^7 minutes would be more than two
C33_Witness ==
    \E j \in JobIds :
        /\ Persisted(j)
        /\ jobs[j].retry_count = 7
        /\ now > 0
        /\ jobs[j].next_run_time = now + 3600

\* the value a calculator returned is Null exactly when the trigger is none
SameRecurrence(job, value, trigger) ==
    /\ trigger.kind = "cron" <=> (TruthyStr(job.cron_expression) /\ value # Null)
    /\ trigger.kind = "interval"
           <=> (~TruthyStr(job.cron_expression) /\ value # Null)
    /\ trigger.kind = "none" <=> value = Null

\* C38: for every combination of cron_expression and interval_seconds the two
\* _calculate_next_run_time return the same value for the same reference
\* time, and _create_trigger builds a trigger from the same field: cron when
\* they answered from the cron expression, interval when they answered from
\* the interval, none when they returned None
C38_CalculatorsAgree ==
    [][\A j \in JobIds :
         /\ ServiceCalculates(j)
               => /\ jobs'[j].next_run_time
                        = JobExecutor_calculate_next_run_time(jobs[j], now)
                  /\ SameRecurrence(jobs[j], jobs'[j].next_run_time,
                                    _create_trigger(jobs[j], now))
         /\ ExecutorCalculates(j)
               => /\ jobs'[j].next_run_time
                        = JobService_calculate_next_run_time(
                              jobs[j].cron_expression, jobs[j].interval_seconds, now)
                  /\ SameRecurrence(jobs[j], jobs'[j].next_run_time,
                                    _create_trigger(jobs[j], now))
         /\ SchedulerCreatesTrigger(j)
               => SameRecurrence(jobs[j],
                                 JobExecutor_calculate_next_run_time(jobs[j], now),
                                 triggers'[j])]_vars

\* C34: a successful run of an interval job, on a record no concurrent call
\* has touched since the run started, leaves next_run_time at the completion
\* time plus interval_seconds; when the run took time this is later than one
\* interval after the start of the run
C34_IntervalAnchoredAtCompletion ==
    [][\A r \in runs :
         (/\ execute_end(r, "success")
          /\ Undisturbed(r)
          /\ ~TruthyStr(r.obj.cron_expression)
          /\ TruthyInt(r.obj.interval_seconds))
         => LET e == RowOf(executions', r.id)
            IN  /\ jobs'[r.job].next_run_time
                       = e.completed_at + jobs'[r.job].interval_seconds
                /\ e.completed_at = now
                /\ e.duration > 0
                       => jobs'[r.job].next_run_time
                              > e.started_at + jobs'[r.job].interval_seconds]_vars

\* C34 witness: an interval job whose run took a whole tick is due one
\* interval after the completion of the run
C34_Witness ==
    \E j \in JobIds : \E e \in RowsOf(executions, j) :
        /\ Persisted(j)
        /\ ~TruthyStr(jobs[j].cron_expression)
        /\ jobs[j].status = "completed"
        /\ e.status = "completed"
        /\ e.completed_at = e.started_at + TickStep
        /\ jobs[j].next_run_time = e.completed_at + jobs[j].interval_seconds

\* C36: when pause_job has returned while an execution of the job is in
\* flight, the end of that execution leaves the job inactive and paused, does
\* not set its next_run_time, and leaves no trigger for it
C36_PauseInFlight ==
    [][\A r \in runs, o \in Outcomes :
         (/\ execute_end(r, o)
          /\ Persisted(r.job)
          /\ ~jobs[r.job].is_active
          /\ jobs[r.job].status = "paused"
          /\ triggers[r.job] = NoTrigger)
         => /\ ~jobs'[r.job].is_active
            /\ jobs'[r.job].status = "paused"
            /\ jobs'[r.job].next_run_time = jobs[r.job].next_run_time
            /\ triggers'[r.job] = NoTrigger]_vars

\* C37: for every persisted job total_runs = successful_runs + failed_runs,
\* and (its executions are deleted only with it) total_runs is the number of
\* its terminal JobExecution rows, successful_runs the number of completed
\* ones and failed_runs the number of failed ones
C37_RunAccounting ==
    \A j \in JobIds :
        Persisted(j) =>
            LET rows == RowsOf(executions, j)
            IN  /\ jobs[j].total_runs = jobs[j].successful_runs + jobs[j].failed_runs
                /\ jobs[j].total_runs = Cardinality({e \in rows : Terminal(e)})
                /\ jobs[j].successful_runs
                       = Cardinality({e \in rows : e.status = "completed"})
                /\ jobs[j].failed_runs = Cardinality({e \in rows : e.status = "failed"})

\* C39: every next_run_time that an operation writes, unless it is None, is
\* later than the time at which the operation computed it
C39_NextRunInFuture ==
    [][\A j \in JobIds :
         (/\ jobs'[j] # NoJob
          /\ jobs'[j].next_run_time # Null
          /\ jobs[j] # NoJob => jobs'[j].next_run_time # jobs[j].next_run_time)
         => jobs'[j].next_run_time > now]_vars

C35_BoundedPool ==
    /\ Cardinality(runs) <= 20
    /\ Cardinality(runs) = 20 => \A j \in submitted : ~ENABLED _execute_job(j)

\* C35 witness: twenty executions are in flight and the call for one more due
\* job waits in the queue of the pool
C35_Witness ==
    /\ Cardinality(runs) = 20
    /\ Cardinality({r.job : r \in runs}) = 20
    /\ submitted # {}
    /\ \A j \in submitted : Persisted(j) /\ jobs[j].is_active /\ RunsOf(j) = {}

====
